---------------------------- MODULE Spec2Model ----------------------------
(***************************************************************************)
(* A model of ktht: the per-client Account ledger (src/src/account.rs),    *)
(* the record dispatch (src/src/io.rs), and the sharded thread-per-core    *)
(* runtime (src/src/rt.rs) driven as main does (src/src/main.rs).          *)
(*                                                                         *)
(* Specifications:                                                         *)
(*   SpecAccount  one Account driven by arbitrary sequences of calls of    *)
(*                its five operations (as the unit tests drive it);        *)
(*   SpecRegistry one Accounts registry to which records are applied one   *)
(*                after another with execute_transaction;                  *)
(*   Spec         try_fold: the submitting thread, one queue and one       *)
(*                worker thread per shard, shutdown and merge;             *)
(*   SpecLive     Spec under fair scheduling of the threads.               *)
(*                                                                         *)
(* Numbers.  Amount is f32, total and held are f64.  The widening          *)
(* `amount as f64` is exact; every f64 `+=` / `-=` rounds its result to    *)
(* the significand width, ties to even.  The model keeps that: a value is  *)
(* an integer count of the smallest unit, and FAdd/FSub round to           *)
(* MantissaBits significant bits.  Amounts are finite numbers (possibly    *)
(* negative) with one significant bit, so the widening stays exact.        *)
(* NaN and infinities are not modelled.                                    *)
(***************************************************************************)
EXTENDS Integers, Sequences, FiniteSets, TLC

\* ------------------------------------------------------------------ bounds
MantissaBits == 3   \* significand width of the model's f64
NumTx == 2          \* transaction ids 1..NumTx
MaxCalls == 6       \* calls made on the Account in SpecAccount
MaxRecords == 5     \* records applied to the registry in SpecRegistry
NumClients == 2     \* client ids 0..NumClients-1
MaxItems == 3       \* items the input iterator of try_fold yields
MaxThreads == 2     \* requested shard counts 0..MaxThreads
MaxCores == 2       \* core ids the host reports, 1..MaxCores

RECURSIVE Pow2(_)
Pow2(n) == IF n = 0 THEN 1 ELSE 2 * Pow2(n - 1)

\* An amount large enough that adding one unit to it is lost to rounding.
Big == Pow2(MantissaBits + 1)

TxIds == 1..NumTx
Amounts == {-1, 1, 2, Big}

\* ---------------------------------------------------------- f64 arithmetic
\* The spacing of representable values around x >= 0.
RECURSIVE Ulp(_, _)
Ulp(x, q) == IF x < q * Pow2(MantissaBits) THEN q ELSE Ulp(x, 2 * q)

RoundPos(x) ==
    LET q  == Ulp(x, 1)
        lo == (x \div q) * q
        r  == x - lo
    IN  IF 2 * r < q THEN lo
        ELSE IF 2 * r > q THEN lo + q
        ELSE IF (lo \div q) % 2 = 0 THEN lo ELSE lo + q

\* Round to nearest, ties to even.
Round(x) == IF x < 0 THEN 0 - RoundPos(0 - x) ELSE RoundPos(x)

FAdd(a, b) == Round(a + b)
FSub(a, b) == Round(a - b)

\* ----------------------------------------------------------------- Account
Default_Account == [deposits |-> <<>>, total |-> 0, held |-> 0, locked |-> FALSE]

Ret(a, r) == [acct |-> a, res |-> r]

\* Mutant: the lock is never noticed.
mut_check_not_locked(a) == "Ok"

check_not_locked(a) == IF a.locked THEN "AccountLocked" ELSE "Ok"

\* Mutant: held funds count as available.
mut_available(a) == a.total

available(a) == FSub(a.total, a.held)

Insert(d, tx, e) == [t \in (DOMAIN d) \cup {tx} |-> IF t = tx THEN e ELSE d[t]]

\* Mutant: the entry is written before the duplicate is noticed.
mut_deposit(a, tx_id, amount) ==
    IF check_not_locked(a) # "Ok" THEN Ret(a, "AccountLocked")
    ELSE IF tx_id \in DOMAIN a.deposits
         THEN Ret([a EXCEPT !.deposits =
                       Insert(@, tx_id, [amount |-> amount, disputed |-> FALSE])],
                  "DuplicateTransaction")
    ELSE Ret([a EXCEPT !.deposits = Insert(@, tx_id, [amount |-> amount, disputed |-> FALSE]),
                       !.total = FAdd(@, amount)], "Ok")

deposit(a, tx_id, amount) ==
    IF check_not_locked(a) # "Ok" THEN Ret(a, "AccountLocked")
    ELSE IF tx_id \in DOMAIN a.deposits THEN Ret(a, "DuplicateTransaction")
    ELSE Ret([a EXCEPT !.deposits = Insert(@, tx_id, [amount |-> amount, disputed |-> FALSE]),
                       !.total = FAdd(@, amount)], "Ok")

\* Mutant: the funds are not checked.
mut_withdraw(a, amount) ==
    IF check_not_locked(a) # "Ok" THEN Ret(a, "AccountLocked")
    ELSE Ret([a EXCEPT !.total = FSub(@, amount)], "Ok")

withdraw(a, amount) ==
    IF check_not_locked(a) # "Ok" THEN Ret(a, "AccountLocked")
    ELSE IF available(a) < amount THEN Ret(a, "InsufficientFunds")
    ELSE Ret([a EXCEPT !.total = FSub(@, amount)], "Ok")

\* Mutant: the disputed amount is taken out of total as it is put on hold.
mut_dispute(a, tx_id) ==
    IF check_not_locked(a) # "Ok" THEN Ret(a, "AccountLocked")
    ELSE IF tx_id \in DOMAIN a.deposits
         THEN IF a.deposits[tx_id].disputed THEN Ret(a, "AlreadyDisputed")
              ELSE Ret([a EXCEPT !.held = FAdd(@, a.deposits[tx_id].amount),
                                 !.total = FSub(@, a.deposits[tx_id].amount),
                                 !.deposits[tx_id].disputed = TRUE], "Ok")
         ELSE Ret(a, "TransactionNotFound")

dispute(a, tx_id) ==
    IF check_not_locked(a) # "Ok" THEN Ret(a, "AccountLocked")
    ELSE IF tx_id \in DOMAIN a.deposits
         THEN IF a.deposits[tx_id].disputed THEN Ret(a, "AlreadyDisputed")
              ELSE Ret([a EXCEPT !.held = FAdd(@, a.deposits[tx_id].amount),
                                 !.deposits[tx_id].disputed = TRUE], "Ok")
         ELSE Ret(a, "TransactionNotFound")

\* Mutant: an entry that is not disputed is resolved all the same.
mut_resolve(a, tx_id) ==
    IF check_not_locked(a) # "Ok" THEN Ret(a, "AccountLocked")
    ELSE IF tx_id \in DOMAIN a.deposits
         THEN Ret([a EXCEPT !.held = FSub(@, a.deposits[tx_id].amount),
                            !.deposits[tx_id].disputed = FALSE], "Ok")
         ELSE Ret(a, "TransactionNotFound")

resolve(a, tx_id) ==
    IF check_not_locked(a) # "Ok" THEN Ret(a, "AccountLocked")
    ELSE IF tx_id \in DOMAIN a.deposits
         THEN IF a.deposits[tx_id].disputed
              THEN Ret([a EXCEPT !.held = FSub(@, a.deposits[tx_id].amount),
                                 !.deposits[tx_id].disputed = FALSE], "Ok")
              ELSE Ret(a, "NotDisputed")
         ELSE Ret(a, "TransactionNotFound")

chargeback(a, tx_id) ==
    IF check_not_locked(a) # "Ok" THEN Ret(a, "AccountLocked")
    ELSE IF tx_id \in DOMAIN a.deposits
         THEN IF a.deposits[tx_id].disputed
              THEN LET disputed_amount == a.deposits[tx_id].amount
                   IN  Ret([a EXCEPT !.held = FSub(@, disputed_amount),
                                     !.total = FSub(@, disputed_amount),
                                     !.locked = TRUE], "Ok")
              ELSE Ret(a, "NotDisputed")
         ELSE Ret(a, "TransactionNotFound")

\* ---------------------------------------------------------------- Accounts
\* Mutant: the entry of client_id replaces the registry.
mut_client_account(accounts, client_id) ==
    [c \in {client_id} |->
        IF c \in DOMAIN accounts THEN accounts[c] ELSE Default_Account]

\* Accounts::client_account: the registry with client_id present.
client_account(accounts, client_id) ==
    IF client_id \in DOMAIN accounts THEN accounts
    ELSE [c \in (DOMAIN accounts) \cup {client_id} |->
            IF c = client_id THEN Default_Account ELSE accounts[c]]

\* The delegating operations: resolve the client's Account, then call it.
Delegate(accounts, client_id, r) ==
    [accounts |-> [client_account(accounts, client_id) EXCEPT ![client_id] = r.acct],
     res |-> r.res]

Accounts_deposit(accounts, client_id, tx_id, amount) ==
    Delegate(accounts, client_id,
             deposit(client_account(accounts, client_id)[client_id], tx_id, amount))

Accounts_withdraw(accounts, client_id, amount) ==
    Delegate(accounts, client_id,
             withdraw(client_account(accounts, client_id)[client_id], amount))

Accounts_dispute(accounts, client_id, tx_id) ==
    Delegate(accounts, client_id,
             dispute(client_account(accounts, client_id)[client_id], tx_id))

Accounts_resolve(accounts, client_id, tx_id) ==
    Delegate(accounts, client_id,
             resolve(client_account(accounts, client_id)[client_id], tx_id))

Accounts_chargeback(accounts, client_id, tx_id) ==
    Delegate(accounts, client_id,
             chargeback(client_account(accounts, client_id)[client_id], tx_id))

Default_Accounts == <<>>

\* ---------------------------------------------------------- CsvTransaction
Clients == 0..(NumClients - 1)
RecordAmounts == {1, Big}

\* The records the input may carry.  Every record has all four fields; the
\* amount of a dispute, resolve or chargeback is never read.
Records ==
    [tx_type : {"deposit", "withdrawal"}, client : Clients, tx : TxIds,
     amount : RecordAmounts]
    \cup [tx_type : {"dispute", "resolve", "chargeback"}, client : Clients,
          tx : TxIds, amount : {0}]

\* What the input iterator yields in place of a record it cannot deserialize.
ErrItem == [tx_type |-> "Err", client |-> 0, tx |-> 0, amount |-> 0]
IsOk(item) == item.tx_type # "Err"

\* Mutant: a withdrawal is recorded under its tx id like a deposit.
mut_execute_transaction(self, accounts) ==
    CASE self.tx_type \in {"deposit", "withdrawal"} ->
            Accounts_deposit(accounts, self.client, self.tx, self.amount)
      [] self.tx_type = "dispute" -> Accounts_dispute(accounts, self.client, self.tx)
      [] self.tx_type = "resolve" -> Accounts_resolve(accounts, self.client, self.tx)
      [] self.tx_type = "chargeback" ->
            Accounts_chargeback(accounts, self.client, self.tx)

execute_transaction(self, accounts) ==
    CASE self.tx_type = "deposit" ->
            Accounts_deposit(accounts, self.client, self.tx, self.amount)
      [] self.tx_type = "withdrawal" ->
            Accounts_withdraw(accounts, self.client, self.amount)
      [] self.tx_type = "dispute" -> Accounts_dispute(accounts, self.client, self.tx)
      [] self.tx_type = "resolve" -> Accounts_resolve(accounts, self.client, self.tx)
      [] self.tx_type = "chargeback" ->
            Accounts_chargeback(accounts, self.client, self.tx)

\* main.rs process_transaction: the fold function; the result is dropped.
process_transaction(accounts, tx) == execute_transaction(tx, accounts).accounts

\* Mutant: the cast keeps one bit only.
mut_as_u8(n) == n % 2

\* `self.shards.len() as u8`
as_u8(n) == n % 256

\* Mutant: the routing key is the transaction id.
mut_shard_id(self, num_shards) == self.tx % num_shards

\* impl Shardable for CsvTransaction; num_shards > 0 (0 is a division by zero).
shard_id(self, num_shards) == self.client % num_shards

\* ------------------------------------------------------------------- state
VARIABLES
    account,        \* SpecAccount: the Account under test
    prev_account,   \* SpecAccount: the Account before the last call
    last_call,      \* SpecAccount: the last call, [op, tx_id, amount]
    last_result,    \* SpecAccount: what the last call returned
    ncalls,         \* SpecAccount: number of calls made
    lifecycle,      \* SpecAccount: per tx id, the last successful dispute-lifecycle
                    \* call on it: "none", "dispute", "resolve", "chargeback" (history)
    registry,       \* SpecRegistry: the Accounts registry
    prev_registry,  \* SpecRegistry: the registry before the last record
    last_record,    \* SpecRegistry: the last record applied
    last_res,       \* SpecRegistry: what execute_transaction returned for it
    nrecords,       \* SpecRegistry: number of records applied
    used,           \* SpecRegistry: the <<client, tx, type>> of the deposit and
                    \* withdrawal records applied so far (history)
    prev_used,      \* SpecRegistry: `used` before the last record (history)
    opened,         \* SpecRegistry: the clients with a successful dispute (history)
    max_threads,    \* the shard count try_fold is called with
    cores,          \* the number of core ids the host reports
    input,          \* what the input iterator has yielded so far: records, or ErrItem
    main_pc,        \* the submitting thread: "submit", "drop", "join", "done", "err",
                    \* "panicked" (division by zero), "send_failed" (expect on send)
    fin,            \* finish: the index of the shard being dropped / joined
    tx_alive,       \* per shard: the Sender has not been dropped
    queue,          \* per shard: the channel's buffered items (indices into input)
    worker_pc,      \* per shard: "recv", "fold", "returned"
    worker_item,    \* per shard: the item received and being folded (0: none)
    state,          \* per shard: the worker's Accounts registry
    applied,        \* per shard: the items folded so far, in order (history)
    result          \* the Vec<S> finish has collected so far

acct_vars == <<account, prev_account, last_call, last_result, ncalls, lifecycle>>
rt_vars == <<max_threads, cores, input, main_pc, fin, tx_alive, queue, worker_pc,
             worker_item, state, applied, result>>
reg_vars == <<registry, prev_registry, last_record, last_res, nrecords, used,
              prev_used, opened>>
vars == <<acct_vars, reg_vars, rt_vars>>

NoCall == [op |-> "none", tx_id |-> 0, amount |-> 0]

\* ------------------------------------------------------------- SpecAccount
AccountIdle ==
    /\ account = Default_Account
    /\ prev_account = Default_Account
    /\ last_call = NoCall
    /\ last_result = "none"
    /\ ncalls = 0
    /\ lifecycle = [t \in TxIds |-> "none"]

Called(op, tx_id, amount, r) ==
    /\ ncalls < MaxCalls
    /\ prev_account' = account
    /\ account' = r.acct
    /\ last_result' = r.res
    /\ last_call' = [op |-> op, tx_id |-> tx_id, amount |-> amount]
    /\ ncalls' = ncalls + 1
    /\ lifecycle' = IF r.res = "Ok" /\ op \in {"dispute", "resolve", "chargeback"}
                    THEN [lifecycle EXCEPT ![tx_id] = op]
                    ELSE lifecycle
    /\ UNCHANGED <<reg_vars, rt_vars>>

CallDeposit ==
    \E tx_id \in TxIds, amount \in Amounts :
        Called("deposit", tx_id, amount, deposit(account, tx_id, amount))

CallWithdraw ==
    \E amount \in Amounts : Called("withdraw", 0, amount, withdraw(account, amount))

CallDispute ==
    \E tx_id \in TxIds : Called("dispute", tx_id, 0, dispute(account, tx_id))

CallResolve ==
    \E tx_id \in TxIds : Called("resolve", tx_id, 0, resolve(account, tx_id))

CallChargeback ==
    \E tx_id \in TxIds : Called("chargeback", tx_id, 0, chargeback(account, tx_id))

NextAccount ==
    \/ CallDeposit
    \/ CallWithdraw
    \/ CallDispute
    \/ CallResolve
    \/ CallChargeback

\* ------------------------------------------------------------ SpecRegistry
NoRecord == [tx_type |-> "none", client |-> 0, tx |-> 0, amount |-> 0]

\* Accounts::default().
RegistryIdle ==
    /\ registry = Default_Accounts
    /\ prev_registry = Default_Accounts
    /\ last_record = NoRecord
    /\ last_res = "none"
    /\ nrecords = 0
    /\ used = {}
    /\ prev_used = {}
    /\ opened = {}

\* `let _ = tx.execute_transaction(&mut accounts)` for the next record of
\* the input.
execute_record ==
    /\ nrecords < MaxRecords
    /\ \E tx \in Records :
          LET r == execute_transaction(tx, registry)
          IN  /\ prev_registry' = registry
              /\ registry' = r.accounts
              /\ last_record' = tx
              /\ last_res' = r.res
              /\ prev_used' = used
              /\ used' = IF tx.tx_type \in {"deposit", "withdrawal"}
                         THEN used \cup {<<tx.client, tx.tx, tx.tx_type>>}
                         ELSE used
              /\ opened' = IF tx.tx_type = "dispute" /\ r.res = "Ok"
                           THEN opened \cup {tx.client}
                           ELSE opened
    /\ nrecords' = nrecords + 1
    /\ UNCHANGED <<acct_vars, rt_vars>>

NextRegistry == execute_record

\* ------------------------------------------- ShardedThreadPerCoreRuntime
Min(a, b) == IF a < b THEN a ELSE b

\* new: one shard per core id, at most max_threads of them (.take(max_threads)).
NumShards == Min(cores, max_threads)
Shards == 0..(NumShards - 1)

\* Mutant: one worker per core id, without .take(max_threads).
mut_New(mt, nc) ==
    /\ max_threads = mt
    /\ cores = nc
    /\ input = <<>>
    /\ main_pc = "submit"
    /\ fin = 0
    /\ tx_alive = [i \in 0..(nc - 1) |-> TRUE]
    /\ queue = [i \in 0..(nc - 1) |-> <<>>]
    /\ worker_pc = [i \in 0..(nc - 1) |-> "recv"]
    /\ worker_item = [i \in 0..(nc - 1) |-> 0]
    /\ state = [i \in 0..(nc - 1) |-> Default_Accounts]
    /\ applied = [i \in 0..(nc - 1) |-> <<>>]
    /\ result = <<>>

\* The state new() returns in: every worker spawned, waiting in recv on an
\* empty channel, with S::default() as its state.
New(mt, nc) ==
    /\ max_threads = mt
    /\ cores = nc
    /\ input = <<>>
    /\ main_pc = "submit"
    /\ fin = 0
    /\ tx_alive = [i \in 0..(Min(nc, mt) - 1) |-> TRUE]
    /\ queue = [i \in 0..(Min(nc, mt) - 1) |-> <<>>]
    /\ worker_pc = [i \in 0..(Min(nc, mt) - 1) |-> "recv"]
    /\ worker_item = [i \in 0..(Min(nc, mt) - 1) |-> 0]
    /\ state = [i \in 0..(Min(nc, mt) - 1) |-> Default_Accounts]
    /\ applied = [i \in 0..(Min(nc, mt) - 1) |-> <<>>]
    /\ result = <<>>

\* Mutant: the newest item is received first.
mut_send(q, item) == <<item>> \o q

\* Sender::send on the unbounded mpsc channel.
send(q, item) == Append(q, item)

\* Dropping the runtime (an early return or an unwinding panic) drops every
\* Sender and detaches every worker.
DropAll == [i \in Shards |-> FALSE]

\* try_fold: the iterator yields Ok(item), one of `items`; process_item
\* routes and sends it.  With no shard the routing divides by zero and the
\* thread panics; send fails, and expect panics, when the shard's worker has
\* returned and so dropped its Receiver.
process_item_of(items) ==
    /\ main_pc = "submit"
    /\ Len(input) < MaxItems
    /\ \E item \in items :
        /\ input' = Append(input, item)
        /\ IF as_u8(NumShards) = 0
           THEN /\ main_pc' = "panicked"
                /\ tx_alive' = DropAll
                /\ UNCHANGED queue
           ELSE LET shard == shard_id(item, as_u8(NumShards))
                IN  IF worker_pc[shard] = "returned"
                    THEN /\ main_pc' = "send_failed"
                         /\ tx_alive' = DropAll
                         /\ UNCHANGED queue
                    ELSE /\ queue' = [queue EXCEPT ![shard] = send(@, Len(input) + 1)]
                         /\ UNCHANGED <<main_pc, tx_alive>>
    /\ UNCHANGED <<acct_vars, reg_vars, max_threads, cores, fin, worker_pc, worker_item,
                   state, applied, result>>

process_item == process_item_of(Records)

\* Mutant: a record that cannot be read is skipped and the loop goes on.
mut_item_err ==
    /\ main_pc = "submit"
    /\ Len(input) < MaxItems
    /\ input' = Append(input, ErrItem)
    /\ UNCHANGED <<acct_vars, reg_vars, max_threads, cores, main_pc, tx_alive, fin, queue,
                   worker_pc, worker_item, state, applied, result>>

\* try_fold: the iterator yields Err(e); `item?` returns it and drops the runtime.
item_err ==
    /\ main_pc = "submit"
    /\ Len(input) < MaxItems
    /\ input' = Append(input, ErrItem)
    /\ main_pc' = "err"
    /\ tx_alive' = DropAll
    /\ UNCHANGED <<acct_vars, reg_vars, max_threads, cores, fin, queue, worker_pc,
                   worker_item, state, applied, result>>

\* try_fold: the iterator is exhausted; finish starts its loop over the shards.
finish_start ==
    /\ main_pc = "submit"
    /\ main_pc' = IF NumShards = 0 THEN "done" ELSE "drop"
    /\ fin' = 0
    /\ UNCHANGED <<acct_vars, reg_vars, max_threads, cores, input, tx_alive, queue,
                   worker_pc, worker_item, state, applied, result>>

\* Mutant: every Sender is dropped before the first join.
mut_finish_drop_all ==
    /\ main_pc = "drop"
    /\ tx_alive' = DropAll
    /\ main_pc' = "join"
    /\ UNCHANGED <<acct_vars, reg_vars, max_threads, cores, input, fin, queue, worker_pc,
                   worker_item, state, applied, result>>

\* Mutant: the Sender is kept until the end of the loop body.
mut_finish_drop_late ==
    /\ main_pc = "drop"
    /\ main_pc' = "join"
    /\ UNCHANGED <<acct_vars, reg_vars, max_threads, cores, input, tx_alive, fin, queue,
                   worker_pc, worker_item, state, applied, result>>

\* finish: drop(tx) of shard fin.
finish_drop ==
    /\ main_pc = "drop"
    /\ tx_alive' = [tx_alive EXCEPT ![fin] = FALSE]
    /\ main_pc' = "join"
    /\ UNCHANGED <<acct_vars, reg_vars, max_threads, cores, input, fin, queue, worker_pc,
                   worker_item, state, applied, result>>

\* Mutant: the state of the first shard is collected at every join.
mut_finish_join ==
    /\ main_pc = "join"
    /\ worker_pc[fin] = "returned"
    /\ result' = Append(result, state[0])
    /\ IF fin + 1 < NumShards
       THEN /\ fin' = fin + 1
            /\ main_pc' = "drop"
       ELSE /\ fin' = fin
            /\ main_pc' = "done"
    /\ UNCHANGED <<acct_vars, reg_vars, max_threads, cores, input, tx_alive, queue,
                   worker_pc, worker_item, state, applied>>

\* finish: join_handle.join() of shard fin returns once its worker has
\* returned; its state is pushed and the loop moves on.
finish_join ==
    /\ main_pc = "join"
    /\ worker_pc[fin] = "returned"
    /\ result' = Append(result, state[fin])
    /\ IF fin + 1 < NumShards
       THEN /\ fin' = fin + 1
            /\ main_pc' = "drop"
       ELSE /\ fin' = fin
            /\ main_pc' = "done"
    /\ UNCHANGED <<acct_vars, reg_vars, max_threads, cores, input, tx_alive, queue,
                   worker_pc, worker_item, state, applied>>

\* Worker loop: rx.recv() returns Ok(item), the oldest buffered item.
worker_recv(i) ==
    /\ worker_pc[i] = "recv"
    /\ queue[i] # <<>>
    /\ worker_item' = [worker_item EXCEPT ![i] = Head(queue[i])]
    /\ queue' = [queue EXCEPT ![i] = Tail(@)]
    /\ worker_pc' = [worker_pc EXCEPT ![i] = "fold"]
    /\ UNCHANGED <<acct_vars, reg_vars, max_threads, cores, input, main_pc, fin, tx_alive,
                   state, applied, result>>

\* Mutant: a fold whose ledger operation fails ends the worker.
mut_worker_fold(i) ==
    /\ worker_pc[i] = "fold"
    /\ state' = [state EXCEPT ![i] = process_transaction(@, input[worker_item[i]])]
    /\ applied' = [applied EXCEPT ![i] = Append(@, worker_item[i])]
    /\ worker_item' = [worker_item EXCEPT ![i] = 0]
    /\ worker_pc' = [worker_pc EXCEPT ![i] =
           IF execute_transaction(input[worker_item[i]], state[i]).res = "Ok"
           THEN "recv" ELSE "returned"]
    /\ UNCHANGED <<acct_vars, reg_vars, max_threads, cores, input, main_pc, fin, tx_alive,
                   queue, result>>

\* Worker loop: f(&mut state, item).
worker_fold(i) ==
    /\ worker_pc[i] = "fold"
    /\ state' = [state EXCEPT ![i] = process_transaction(@, input[worker_item[i]])]
    /\ applied' = [applied EXCEPT ![i] = Append(@, worker_item[i])]
    /\ worker_item' = [worker_item EXCEPT ![i] = 0]
    /\ worker_pc' = [worker_pc EXCEPT ![i] = "recv"]
    /\ UNCHANGED <<acct_vars, reg_vars, max_threads, cores, input, main_pc, fin, tx_alive,
                   queue, result>>

\* Mutant: the worker returns as soon as its Sender is dropped, whatever is
\* still buffered.
mut_worker_exit(i) ==
    /\ worker_pc[i] = "recv"
    /\ ~tx_alive[i]
    /\ worker_pc' = [worker_pc EXCEPT ![i] = "returned"]
    /\ UNCHANGED <<acct_vars, reg_vars, max_threads, cores, input, main_pc, fin, tx_alive,
                   queue, worker_item, state, applied, result>>

\* Worker loop: rx.recv() returns Err: the channel is empty and its Sender
\* is dropped; the thread returns its state.
worker_exit(i) ==
    /\ worker_pc[i] = "recv"
    /\ queue[i] = <<>>
    /\ ~tx_alive[i]
    /\ worker_pc' = [worker_pc EXCEPT ![i] = "returned"]
    /\ UNCHANGED <<acct_vars, reg_vars, max_threads, cores, input, main_pc, fin, tx_alive,
                   queue, worker_item, state, applied, result>>

RtIdle == New(0, 1)

Init ==
    /\ AccountIdle
    /\ RegistryIdle
    /\ \E mt \in 0..MaxThreads, nc \in 1..MaxCores : New(mt, nc)

Next ==
    \/ process_item
    \/ item_err
    \/ finish_start
    \/ finish_drop
    \/ finish_join
    \/ \E i \in Shards : worker_recv(i)
    \/ \E i \in Shards : worker_fold(i)
    \/ \E i \in Shards : worker_exit(i)

Spec == Init /\ [][Next]_vars

\* The same program under fair scheduling, for the termination of finish.
\* The folds are total functions of the record, so the input is drawn from
\* a few records only: deposits and disputes of tx 1, some of which fail.
LiveRecords ==
    {r \in Records : r.tx = 1 /\ r.tx_type \in {"deposit", "dispute"} /\ r.amount <= 1}

process_item_live == process_item_of(LiveRecords)

\* One step of the worker thread of shard i.
worker_step(i) ==
    /\ i \in Shards
    /\ (worker_recv(i) \/ worker_fold(i) \/ worker_exit(i))

NextLive ==
    \/ process_item_live
    \/ item_err
    \/ finish_start
    \/ finish_drop
    \/ finish_join
    \/ \E i \in Shards : worker_recv(i)
    \/ \E i \in Shards : worker_fold(i)
    \/ \E i \in Shards : worker_exit(i)

\* Every thread that can take a step eventually takes one: the workers, and
\* the submitting thread once it is in finish.
Fairness ==
    /\ WF_vars(finish_drop)
    /\ WF_vars(finish_join)
    /\ \A i \in 0..MaxThreads : WF_vars(worker_step(i))

SpecLive == Init /\ [][NextLive]_vars /\ Fairness

InitAccount == AccountIdle /\ RegistryIdle /\ RtIdle

SpecAccount == InitAccount /\ [][NextAccount]_vars

InitRegistry == AccountIdle /\ RegistryIdle /\ RtIdle

SpecRegistry == InitRegistry /\ [][NextRegistry]_vars

\* ------------------------------------------------- claims about the Account
Disputed(a) == {t \in DOMAIN a.deposits : a.deposits[t].disputed}

Errors == {"AccountLocked", "InsufficientFunds", "NotDisputed", "AlreadyDisputed",
           "TransactionNotFound", "DuplicateTransaction"}

\* C4: once an Account is locked, every later call of deposit, withdraw,
\* dispute, resolve or chargeback returns AccountLocked, whatever its
\* arguments, and leaves total, held, locked and every deposit entry as they
\* were; in particular locked stays true.
C4_LockedRejectsAll ==
    prev_account.locked =>
        /\ last_result = "AccountLocked"
        /\ account = prev_account
        /\ account.locked

\* C4 witness: a resolve of a deposit that is still disputed, on an account
\* locked by the chargeback of another deposit, has been rejected.
C4_Witness ==
    /\ prev_account.locked
    /\ last_call.op = "resolve"
    /\ last_call.tx_id \in Disputed(prev_account)
    /\ Cardinality(Disputed(prev_account)) = 2
    /\ last_result = "AccountLocked"

\* C5: whenever one of the five operations returns an error, total, held,
\* locked and the whole map of deposit entries are what they were before
\* the call.
C5_ErrorLeavesAccount ==
    last_result \in Errors => account = prev_account

\* C5 witness: a deposit that reuses a tx id with a different amount has
\* returned DuplicateTransaction.
C5_Witness ==
    /\ last_result = "DuplicateTransaction"
    /\ last_call.op = "deposit"
    /\ prev_account.deposits[last_call.tx_id].amount # last_call.amount

\* C6: on an unlocked account, deposit with a fresh tx id succeeds, adds
\* amount to both total and available, leaves held unchanged and records a
\* non-disputed entry; with a tx id that already has an entry it returns
\* DuplicateTransaction and leaves the account as before.
C6_Deposit ==
    (last_call.op = "deposit" /\ ~prev_account.locked) =>
        IF last_call.tx_id \notin DOMAIN prev_account.deposits
        THEN /\ last_result = "Ok"
             /\ account.total = FAdd(prev_account.total, last_call.amount)
             /\ FSub(account.total, account.held)
                  = FAdd(FSub(prev_account.total, prev_account.held), last_call.amount)
             /\ account.held = prev_account.held
             /\ DOMAIN account.deposits = DOMAIN prev_account.deposits \cup {last_call.tx_id}
             /\ account.deposits[last_call.tx_id]
                  = [amount |-> last_call.amount, disputed |-> FALSE]
             /\ \A t \in DOMAIN prev_account.deposits :
                    account.deposits[t] = prev_account.deposits[t]
             /\ ~account.locked
        ELSE /\ last_result = "DuplicateTransaction"
             /\ account = prev_account

C8_Dispute ==
    (last_call.op = "dispute" /\ ~prev_account.locked) =>
        LET tx == last_call.tx_id
        IN  IF tx \notin DOMAIN prev_account.deposits
            THEN last_result = "TransactionNotFound"
            ELSE IF prev_account.deposits[tx].disputed
            THEN last_result = "AlreadyDisputed"
            ELSE /\ last_result = "Ok"
                 /\ account.held = FAdd(prev_account.held, prev_account.deposits[tx].amount)
                 /\ FSub(account.total, account.held)
                      = FSub(FSub(prev_account.total, prev_account.held),
                             prev_account.deposits[tx].amount)
                 /\ account.total = prev_account.total
                 /\ account.deposits
                      = [prev_account.deposits EXCEPT ![tx].disputed = TRUE]
                 /\ ~account.locked

\* C9: resolve is the exact inverse of dispute: a successful dispute(tx_id)
\* of a non-disputed deposit followed immediately by resolve(tx_id) succeeds
\* and returns the account to exactly the state before the dispute.
C9_ResolveInvertsDispute ==
    [][ ( /\ last_call.op = "dispute"
          /\ last_result = "Ok"
          /\ last_call'.op = "resolve"
          /\ last_call'.tx_id = last_call.tx_id
          /\ ncalls' = ncalls + 1 )
        => ( last_result' = "Ok" /\ account' = prev_account ) ]_vars

\* C10: on an unlocked account, chargeback of a currently disputed deposit
\* succeeds, decreases both held and total by the deposit's amount, leaves
\* available unchanged, sets locked, and leaves the deposit entries alone.
C10_Chargeback ==
    ( /\ last_call.op = "chargeback"
      /\ ~prev_account.locked
      /\ last_call.tx_id \in Disputed(prev_account) ) =>
        LET amt == prev_account.deposits[last_call.tx_id].amount
        IN  /\ last_result = "Ok"
            /\ account.held = FSub(prev_account.held, amt)
            /\ account.total = FSub(prev_account.total, amt)
            /\ FSub(account.total, account.held)
                 = FSub(prev_account.total, prev_account.held)
            /\ account.locked
            /\ account.deposits = prev_account.deposits

\* C11: on an unlocked account, resolve and chargeback each return
\* TransactionNotFound when no deposit entry has the tx id, and NotDisputed
\* when the entry exists but is not currently disputed; in both cases the
\* account is not locked and no balance or entry changes.
C11_ResolveChargebackErrors ==
    (last_call.op \in {"resolve", "chargeback"} /\ ~prev_account.locked) =>
        LET tx == last_call.tx_id
        IN  /\ tx \notin DOMAIN prev_account.deposits =>
                 (last_result = "TransactionNotFound" /\ account = prev_account)
            /\ (tx \in DOMAIN prev_account.deposits /\ ~prev_account.deposits[tx].disputed) =>
                 (last_result = "NotDisputed" /\ account = prev_account)

\* C11 witness: a chargeback of a deposit whose dispute was already resolved
\* has returned NotDisputed.
C11_Witness ==
    /\ last_call.op = "chargeback"
    /\ last_result = "NotDisputed"
    /\ lifecycle[last_call.tx_id] = "resolve"
    /\ ~account.locked

\* C16: held >= 0 in every reachable Account state.
C16_HeldNonNegative == account.held >= 0

\* C17: a deposit entry's disputed flag is true only if a dispute of that tx
\* id has succeeded and no resolve or chargeback of it has succeeded since.
C17_DisputedOnlyWhileOpen ==
    \A t \in DOMAIN account.deposits :
        account.deposits[t].disputed => lifecycle[t] = "dispute"

\* C20: held is left unchanged by every deposit and withdraw and changes
\* only on a successful dispute, resolve or chargeback; total is left
\* unchanged by every dispute and resolve and changes only on a successful
\* deposit, withdraw or chargeback.
C20_Frame ==
    /\ last_call.op \in {"deposit", "withdraw"} => account.held = prev_account.held
    /\ last_call.op \in {"dispute", "resolve"} => account.total = prev_account.total
    /\ account.held # prev_account.held =>
          (last_call.op \in {"dispute", "resolve", "chargeback"} /\ last_result = "Ok")
    /\ account.total # prev_account.total =>
          (last_call.op \in {"deposit", "withdraw", "chargeback"} /\ last_result = "Ok")

\* C20 witness: a successful dispute has changed held and left total alone.
C20_Witness ==
    /\ last_call.op = "dispute"
    /\ last_result = "Ok"
    /\ account.held # prev_account.held
    /\ account.total = prev_account.total
    /\ account.total > 0
    /\ account.held > 0

\* ------------------------------------------------- claims about the runtime
\* The submitted items (indices into input, in submission order) that route
\* to shard i.
RECURSIVE RoutedUpTo(_, _)
RoutedUpTo(i, n) ==
    IF n = 0 THEN <<>>
    ELSE IF IsOk(input[n]) /\ input[n].client % NumShards = i
         THEN Append(RoutedUpTo(i, n - 1), n)
         ELSE RoutedUpTo(i, n - 1)

RoutedTo(i) == RoutedUpTo(i, Len(input))

IsPrefix(s, t) == Len(s) <= Len(t) /\ \A k \in 1..Len(s) : s[k] = t[k]

\* The records of client c, in submission order.
RecordsOf(c) == SelectSeq(input, LAMBDA r : IsOk(r) /\ r.client = c)

\* Records applied one after another to one registry.
RECURSIVE Sequentially(_, _)
Sequentially(accounts, recs) ==
    IF recs = <<>> THEN accounts
    ELSE Sequentially(process_transaction(accounts, Head(recs)), Tail(recs))

Snapshot(a) == <<available(a), a.held, a.total, a.locked>>

\* The rows of the merged result: (shard position, client) pairs.
Rows == {jc \in (1..Len(result)) \X Clients : jc[2] \in DOMAIN result[jc[1]]}

\* C1: the items that route to one shard are folded by its worker in the
\* order of their submission: what shard i has folded so far is a prefix of
\* the submitted items routed to i, in every reachable state.
C1_FoldedInSubmissionOrder ==
    \A i \in Shards : IsPrefix(applied[i], RoutedTo(i))

\* C1 witness: a worker has folded two items of the same client while a
\* third submitted item is still buffered or being folded somewhere.
C1_Witness ==
    \E i \in Shards :
        /\ Len(applied[i]) >= 2
        /\ input[applied[i][1]].client = input[applied[i][2]].client
        /\ \E j \in Shards : queue[j] # <<>> \/ worker_pc[j] = "fold"

\* C2: when try_fold has returned the shard states, each client with
\* records has exactly one row in the merged result, and its (available,
\* held, total, locked) is what applying that client's records in
\* submission order to one Accounts registry gives, whatever the shard
\* count and the interleaving; a client without records has no row.
C2_MergedEqualsSequential ==
    main_pc = "done" =>
        \A c \in Clients :
            LET rows == {jc \in Rows : jc[2] = c}
            IN  IF RecordsOf(c) = <<>> THEN rows = {}
                ELSE /\ Cardinality(rows) = 1
                     /\ \A jc \in rows :
                            Snapshot(result[jc[1]][c])
                              = Snapshot(Sequentially(Default_Accounts, RecordsOf(c))[c])

\* C2 witness: two shards have returned, the records of two clients were
\* interleaved in the input, and one client's dispute of its own deposit
\* was applied.
C2_Witness ==
    /\ main_pc = "done"
    /\ NumShards = 2
    /\ Len(input) = 3
    /\ input[1].client = input[3].client
    /\ input[2].client # input[1].client
    /\ input[1].tx_type = "deposit"
    /\ input[3].tx_type = "dispute"
    /\ input[3].tx = input[1].tx
    /\ \E jc \in Rows : result[jc[1]][jc[2]].held > 0

\* C3: when finish has returned, every submitted item has been folded
\* exactly once, by the worker of the shard it routes to, and none is left
\* in a queue or in a worker's hands.
C3_AllFoldedOnce ==
    main_pc = "done" =>
        /\ \A k \in 1..Len(input) :
              Cardinality({ip \in Shards \X (1..MaxItems) :
                             /\ ip[2] \in DOMAIN applied[ip[1]]
                             /\ applied[ip[1]][ip[2]] = k}) = 1
        /\ \A i \in Shards :
              /\ queue[i] = <<>>
              /\ worker_item[i] = 0
              /\ worker_pc[i] = "returned"
              /\ applied[i] = RoutedTo(i)

\* C3 witness: finish has returned after MaxItems items were submitted to
\* two shards, each of which folded at least one.
C3_Witness ==
    /\ main_pc = "done"
    /\ Len(input) = MaxItems
    /\ NumShards = 2
    /\ \A i \in Shards : applied[i] # <<>>

\* What the p-th fold of shard i returned: the ledger's result on the state
\* the earlier folds of that shard had built.
FoldResult(i, p) ==
    execute_transaction(
        input[applied[i][p]],
        Sequentially(Default_Accounts, [q \in 1..(p - 1) |-> input[applied[i][q]]])).res

\* C12: a worker has returned only if its Sender was dropped, whatever its
\* folds returned; no send of process_item ever fails; and when finish has
\* returned every item routed to a shard was folded, those submitted after
\* a failing item included.
C12_WorkerStopsOnlyWhenClosed ==
    /\ \A i \in Shards : worker_pc[i] = "returned" => ~tx_alive[i]
    /\ main_pc # "send_failed"
    /\ main_pc = "done" => \A i \in Shards : applied[i] = RoutedTo(i)

\* C12 witness: finish has returned, a worker's first fold returned a
\* ledger error, and the worker went on to fold two more items.
C12_Witness ==
    /\ main_pc = "done"
    /\ \E i \in Shards :
          /\ Len(applied[i]) = 3
          /\ FoldResult(i, 1) # "Ok"
          /\ FoldResult(i, 3) = "Ok"

\* C13: a runtime constructed with shard count N has exactly N workers, and
\* finish returns exactly N states, whatever the number of cores reported.
C13_ExactlyNShards ==
    /\ Cardinality(DOMAIN worker_pc) = max_threads
    /\ main_pc = "done" => Len(result) = max_threads

\* C13 (amended): the runtime has one worker per core id the host reports,
\* at most max_threads of them: exactly max_threads when the host reports at
\* least that many.  Each worker has its own Sender, queue and state, the
\* state is S::default() until the worker's first fold, and finish returns
\* one state per worker.
C13_MinOfCoresAndN ==
    /\ Cardinality(DOMAIN worker_pc) = Min(cores, max_threads)
    /\ cores >= max_threads => Cardinality(DOMAIN worker_pc) = max_threads
    /\ DOMAIN queue = DOMAIN worker_pc
    /\ DOMAIN state = DOMAIN worker_pc
    /\ DOMAIN tx_alive = DOMAIN worker_pc
    /\ \A i \in DOMAIN worker_pc : applied[i] = <<>> => state[i] = Default_Accounts
    /\ main_pc = "done" => Len(result) = Cardinality(DOMAIN worker_pc)

\* C13 witness: finish returned the single state of a runtime that was
\* constructed with shard count 2 on a host reporting one core id.
C13_Witness ==
    /\ main_pc = "done"
    /\ max_threads = 2
    /\ cores = 1
    /\ Len(result) = 1
    /\ result[1] # Default_Accounts

\* C14: an Err of the input iterator is the last thing the loop takes from
\* it: try_fold has then returned the Err with no shard state collected,
\* every item before it was submitted exactly once to its shard, and nothing
\* after it is ever submitted.
C14_ErrStopsSubmission ==
    /\ \A k \in 1..Len(input) :
          ~IsOk(input[k]) => (k = Len(input) /\ main_pc = "err" /\ result = <<>>)
    /\ main_pc = "err" =>
          /\ ~IsOk(input[Len(input)])
          /\ NumShards > 0 =>
                \A k \in 1..(Len(input) - 1) :
                    LET i == input[k].client % NumShards
                    IN  Cardinality({p \in DOMAIN queue[i] : queue[i][p] = k})
                          + Cardinality({p \in DOMAIN applied[i] : applied[i][p] = k})
                          + (IF worker_item[i] = k THEN 1 ELSE 0) = 1

\* C14 witness: the iterator failed after two items were submitted, and a
\* worker has since folded one of them.
C14_Witness ==
    /\ main_pc = "err"
    /\ Len(input) = 3
    /\ \E i \in Shards : applied[i] # <<>>

\* C15: under fair scheduling, once finish has started it returns.
C15_FinishReturns == (main_pc = "drop") ~> (main_pc = "done")

\* C15 witness: finish waits in join on a worker whose Sender is dropped
\* and whose channel still buffers MaxItems items.
C15_Witness ==
    /\ main_pc = "join"
    /\ ~tx_alive[fin]
    /\ Len(queue[fin]) = MaxItems

\* C18 (as claimed): when finish waits on a join, the Senders of all shards
\* have been dropped.
C18_AllClosedBeforeJoin ==
    main_pc = "join" => \A i \in Shards : ~tx_alive[i]

\* C18 (amended): finish closes and joins shard by shard: when it waits on
\* the join of shard fin, exactly the Senders of shards 0..fin have been
\* dropped and the workers of the shards before fin have been joined; when
\* it has returned, all Senders are dropped.
C18_ClosedUpToJoined ==
    /\ main_pc = "join" =>
          /\ \A i \in Shards : tx_alive[i] <=> i > fin
          /\ Len(result) = fin
    /\ main_pc = "done" => \A i \in Shards : ~tx_alive[i]

\* C18 witness: finish waits on the join of shard 0 of two shards.
C18_Witness ==
    /\ main_pc = "join"
    /\ fin = 0
    /\ NumShards = 2
    /\ tx_alive[1]

\* C19: share nothing: the Account of a client lives in the state of at most
\* one shard, two workers never fold items of the same client at the same
\* time, a worker only folds items routed to it, and the submitting thread
\* has taken the state of a shard only after its worker returned.
C19_ShareNothing ==
    /\ \A i, j \in Shards :
          i # j => (DOMAIN state[i]) \cap (DOMAIN state[j]) = {}
    /\ \A i, j \in Shards :
          (i # j /\ worker_pc[i] = "fold" /\ worker_pc[j] = "fold") =>
              input[worker_item[i]].client # input[worker_item[j]].client
    /\ \A i \in Shards :
          worker_pc[i] = "fold" => input[worker_item[i]].client % NumShards = i
    /\ \A j \in 1..Len(result) :
          worker_pc[j - 1] = "returned" /\ result[j] = state[j - 1]

\* C19 witness: two workers are folding at the same time, one of them on a
\* state that already holds an Account.
C19_Witness ==
    /\ NumShards = 2
    /\ \A i \in Shards : worker_pc[i] = "fold"
    /\ \E i \in Shards : state[i] # Default_Accounts

\* ------------------------------------------------ claims about the registry
\* The Account the last record was applied to, as client_account handed it
\* to the operation.
TargetBefore == client_account(prev_registry, last_record.client)[last_record.client]

\* Before the last record, its tx id had been used for its client by
\* withdrawal records only.
UsedByWithdrawalsOnly ==
    /\ <<last_record.client, last_record.tx, "withdrawal">> \in prev_used
    /\ <<last_record.client, last_record.tx, "deposit">> \notin prev_used

\* C21 (as claimed): a Withdrawal record leaves the deposit entries as they
\* were; a dispute, resolve or chargeback of a tx id used only by
\* withdrawals returns TransactionNotFound; a deposit reusing such a tx id
\* does not return DuplicateTransaction.
C21_WithdrawalNotTracked ==
    /\ last_record.tx_type = "withdrawal" =>
          registry[last_record.client].deposits = TargetBefore.deposits
    /\ (last_record.tx_type \in {"dispute", "resolve", "chargeback"}
          /\ UsedByWithdrawalsOnly) =>
          last_res = "TransactionNotFound"
    /\ (last_record.tx_type = "deposit" /\ UsedByWithdrawalsOnly) =>
          last_res # "DuplicateTransaction"

\* C21 (amended): a Withdrawal record leaves the deposit entries as they
\* were and its result does not depend on its tx id.  For a tx id used only
\* by withdrawals: on an account that is not locked a dispute, resolve or
\* chargeback returns TransactionNotFound and a deposit succeeds and creates
\* the entry; on a locked account each of them returns AccountLocked.
C21_WithdrawalNotTrackedUnlessLocked ==
    /\ last_record.tx_type = "withdrawal" =>
          /\ registry[last_record.client].deposits = TargetBefore.deposits
          /\ \A t \in TxIds :
                execute_transaction([last_record EXCEPT !.tx = t], prev_registry)
                  = [accounts |-> registry, res |-> last_res]
    /\ (last_record.tx_type \in {"dispute", "resolve", "chargeback"}
          /\ UsedByWithdrawalsOnly) =>
          /\ last_res = IF TargetBefore.locked THEN "AccountLocked"
                        ELSE "TransactionNotFound"
          /\ last_record.tx \notin DOMAIN registry[last_record.client].deposits
    /\ (last_record.tx_type = "deposit" /\ UsedByWithdrawalsOnly) =>
          /\ last_res = IF TargetBefore.locked THEN "AccountLocked" ELSE "Ok"
          /\ ~TargetBefore.locked =>
                last_record.tx \in DOMAIN registry[last_record.client].deposits

\* C21 witness: on an account holding funds, a successful withdrawal under
\* tx id 2 was followed by a dispute of tx 2, which was not found.
C21_Witness ==
    /\ last_record.tx_type = "dispute"
    /\ UsedByWithdrawalsOnly
    /\ last_res = "TransactionNotFound"
    /\ TargetBefore.deposits # <<>>
    /\ \E a \in RecordAmounts : TargetBefore.total = a - 1

\* C22: the registry starts empty and only grows: after a record of client
\* c is applied, successful or failing, c is present and is the only client
\* added; a client that was absent got a default Account (zero total, zero
\* held, unlocked, no deposits) on which the operation then acted, so it is
\* still the default one when the operation failed; no client is removed
\* and the Account of every other client is what it was.
C22_RegistryOnlyGrows ==
    /\ nrecords = 0 => registry = Default_Accounts
    /\ nrecords > 0 =>
          LET c == last_record.client
          IN  /\ DOMAIN registry = (DOMAIN prev_registry) \cup {c}
              /\ \A d \in (DOMAIN registry) \ {c} : registry[d] = prev_registry[d]
              /\ c \notin DOMAIN prev_registry =>
                    /\ TargetBefore = Default_Account
                    /\ last_res \in Errors => registry[c] = Default_Account
    /\ Cardinality(DOMAIN registry) <= nrecords

\* C22 witness: a failing dispute for a client without an Account has
\* created its default Account next to the funded Account of another
\* client.
C22_Witness ==
    /\ last_record.tx_type = "dispute"
    /\ last_res = "TransactionNotFound"
    /\ last_record.client \notin DOMAIN prev_registry
    /\ registry[last_record.client] = Default_Account
    /\ \E d \in DOMAIN prev_registry : prev_registry[d].total > 0

\* C23: in the states finish returns, a client is present only in the
\* registry of the shard with index client mod number of shards, so the
\* flattened result has at most one row per client.
C23_OneShardPerClient ==
    /\ \A j \in 1..Len(result) :
          \A c \in DOMAIN result[j] : c % NumShards = j - 1
    /\ main_pc = "done" =>
          \A c \in Clients : Cardinality({jc \in Rows : jc[2] = c}) <= 1

\* C23 witness: finish has returned two registries, each holding a client.
C23_Witness ==
    /\ main_pc = "done"
    /\ Len(result) = 2
    /\ \A j \in 1..2 : result[j] # Default_Accounts

\* C24 (as claimed): whatever the shard count and the number of cores,
\* every item the iterator yields gets a shard index that is an index of a
\* spawned shard, and no submission fails on it.
C24_ValidShardIndex ==
    /\ main_pc # "panicked"
    /\ \A k \in 1..Len(input) :
          IsOk(input[k]) =>
              /\ as_u8(NumShards) # 0
              /\ shard_id(input[k], as_u8(NumShards)) \in DOMAIN queue

\* C24 (amended): when at least one shard was spawned, every item gets a
\* shard index below the number of spawned shards, also when fewer shards
\* were spawned than requested, and no submission panics.  When none was
\* spawned (shard count 0), the first item submitted panics on the
\* remainder by zero, and only then.
C24_ValidShardIndexIfSpawned ==
    /\ max_threads >= 1 => NumShards >= 1
    /\ NumShards >= 1 =>
          /\ main_pc # "panicked"
          /\ \A k \in 1..Len(input) :
                IsOk(input[k]) =>
                    /\ as_u8(NumShards) # 0
                    /\ shard_id(input[k], as_u8(NumShards)) \in DOMAIN queue
    /\ NumShards = 0 =>
          /\ max_threads = 0
          /\ (\E k \in 1..Len(input) : IsOk(input[k])) <=> main_pc = "panicked"
          /\ main_pc = "panicked" => Len(input) = 1

\* C24 witness: with shard count 2 on a host reporting one core id, an item
\* of client 1 is buffered in the channel of shard 0, the only shard.
C24_Witness ==
    /\ max_threads = 2
    /\ cores = 1
    /\ \E p \in DOMAIN queue[0] : input[queue[0][p]].client = 1

\* C25 (as claimed): with non-negative record amounts, total and available
\* are non-negative in every Account.
C25_NonNegative ==
    \A c \in DOMAIN registry :
        registry[c].total >= 0 /\ available(registry[c]) >= 0

\* C25 (amended): with non-negative record amounts, total and available are
\* non-negative in every Account on which no dispute has succeeded; there
\* held is zero and available equals total.
C25_NonNegativeUntilDisputed ==
    \A c \in (DOMAIN registry) \ opened :
        /\ registry[c].held = 0
        /\ registry[c].total >= 0
        /\ available(registry[c]) = registry[c].total

\* C25 witness: on an Account without disputes, a withdrawal of more than
\* the funds left after an earlier withdrawal was rejected.
C25_Witness ==
    /\ last_record.tx_type = "withdrawal"
    /\ last_res = "InsufficientFunds"
    /\ last_record.client \notin opened
    /\ <<last_record.client, 1, "withdrawal">> \in prev_used
    /\ registry[last_record.client].total > 0

=============================================================================
